---- MODULE Spec2Model ----
(***************************************************************************)
(* A model of the buffered_allocator crate:                                *)
(*   - FixBufferedAllocator (src/src/lib.rs), the raw bump arena;          *)
(*   - RestartableFBA (src/src/lib.rs), the single-owner coordinator;      *)
(*   - sync::RestartableFBA (src/src/sync.rs), the thread-safe coordinator *)
(*     with its Mutex and its AtomicUsize live-count.                      *)
(* The variable "variant" selects which of the three objects a behaviour   *)
(* exercises; the other objects stay in their constructed state.           *)
(***************************************************************************)
EXTENDS Integers, Sequences, FiniteSets, Bags, TLC

\* ---------------------------------------------------------------- bounds
\* usize is Width bits wide; isize::MAX bounds slice lengths and layouts.
Width == 5
\* longest buffer handed to a coordinator
MaxCap == 2
\* handles (and raw views) alive at once
MaxHandles == 2

RECURSIVE Pow2(_)
Pow2(n) == IF n = 0 THEN 1 ELSE 2 * Pow2(n - 1)

UsizeMod == Pow2(Width)
UsizeMax == UsizeMod - 1
IsizeMax == Pow2(Width - 1) - 1

\* the None of Option<usize>
None == -1

Threads == {"t1", "t2"}
NoThread == "-"

\* alignments a Layout can carry (powers of two)
Aligns == {1, 2, 4}
\* (size_of, align_of) of the element types used with create / alloc_slice:
\* u8, u16, u32
Types == {<<1, 1>>, <<2, 2>>, <<4, 4>>}
\* layout sizes passed to alloc()
Sizes == {0, 1, 2}
\* element counts passed to alloc_slice()
Lengths == {0, 1, UsizeMax}
BufLens == 0..MaxCap
\* buffers of the raw arena: long enough for padding up to the largest align
ArenaLens == 0..(MaxCap + 4)

VARIABLES
    variant,    \* "arena" | "local" | "sync": the object under exercise
    ev,         \* the step that produced this state (call, arguments, result)
    fba,        \* FixBufferedAllocator { buf, offset }
    granted,    \* bytes the raw arena has handed out since construction (a
                \* bag: a byte handed out twice is in it twice)
    l_alloc,    \* RestartableFBA.alloc (the arena inside the RefCell)
    l_counter,  \* RestartableFBA.counter
    l_handles,  \* live AllocatedRef values of the single-owner coordinator
    l_views,    \* raw &mut [u8] views returned by get_buf and still in use
    s_alloc,    \* sync::RestartableFBA.alloc (the arena inside the Mutex)
    s_counter,  \* sync::RestartableFBA.counter (AtomicUsize)
    s_handles,  \* live sync::AllocatedRef values, owned by any thread
    lock,       \* holder of the Mutex, or NoThread
    pc,         \* position of each thread inside a coordinator call
    loc         \* locals of each thread's current call

vars == <<variant, ev, fba, granted, l_alloc, l_counter, l_handles, l_views,
          s_alloc, s_counter, s_handles, lock, pc, loc>>

arenaVars == <<fba, granted>>
localVars == <<l_alloc, l_counter, l_handles, l_views>>
syncVars == <<s_alloc, s_counter, s_handles, lock, pc, loc>>

\* ------------------------------------------------- usize arithmetic
checked_add(a, b) == IF a + b > UsizeMax THEN None ELSE a + b

\* a multiplication that wraps around instead of reporting the overflow
wrapping_mul(a, b) == (a * b) % UsizeMod

checked_mul(a, b) == IF a * b > UsizeMax THEN None ELSE a * b

wrapping_neg(x) == (UsizeMod - x) % UsizeMod

RECURSIVE BitAnd(_, _)
BitAnd(a, b) ==
    IF a = 0 \/ b = 0 THEN 0
    ELSE (a % 2) * (b % 2) + 2 * BitAnd(a \div 2, b \div 2)

\* Layout::from_size_align: align is a power of two and size, rounded up to
\* align, does not exceed isize::MAX
LayoutOk(size, align) == align \in {Pow2(k) : k \in 0..(Width - 1)}
                         /\ size <= IsizeMax - (align - 1)

\* ------------------------------------------------- FixBufferedAllocator
\* values passed to create; a value fills every byte of its place with itself
Values == {1, 2}
\* no value (the err of a result that is no Err); also the byte of a buffer
\* nothing was written to
NoValue == 0

\* FixBufferedAllocator::new. `bytes` is the part of the buffer's contents a
\* behaviour keeps track of: none of it here, all of it in TrackedFBA
NewFBA(id, len) == [buf |-> id, bytes |-> << >>, len |-> len, offset |-> 0]

\* FixBufferedAllocator::new over a zeroed buffer whose contents are tracked
TrackedFBA(id, len) ==
    [NewFBA(id, len) EXCEPT !.bytes = [i \in 0..(len - 1) |-> NoValue]]

\* *res = value: the bytes [lo, hi) of the buffer become the value
Store(a, lo, hi, value) ==
    [a EXCEPT !.bytes = [i \in DOMAIN a.bytes |->
                            IF lo <= i /\ i < hi THEN value ELSE a.bytes[i]]]

\* the null pointer of alloc_raw, the None of alloc / alloc_slice, the Err of
\* create: nothing granted, the arena as it was
Failed(a) == [alloc |-> a, err |-> NoValue, hi |-> 0, lo |-> 0, ok |-> FALSE]

\* padding without the negation: the distance past the last multiple of align
padding_unnegated(a, align) == BitAnd(a.offset, align - 1)

\* FixBufferedAllocator::padding
padding(a, align) == BitAnd(wrapping_neg(a.offset), align - 1)

\* alloc_raw that leaves the offset at the start of the range it returns
alloc_raw_unbumped(a, size, align) ==
    LET aligned_offset == checked_add(a.offset, padding(a, align)) IN
    IF aligned_offset = None THEN Failed(a)
    ELSE LET total == checked_add(aligned_offset, size) IN
         IF total = None THEN Failed(a)
         ELSE IF total > a.len THEN Failed(a)
         ELSE [alloc |-> [a EXCEPT !.offset = aligned_offset],
               err |-> NoValue, hi |-> total, lo |-> aligned_offset,
               ok |-> TRUE]

\* alloc_raw that stores the aligned offset before it tests the capacity
alloc_raw_eager(a, size, align) ==
    LET aligned_offset == checked_add(a.offset, padding(a, align)) IN
    IF aligned_offset = None THEN Failed(a)
    ELSE LET total == checked_add(aligned_offset, size) IN
         IF total = None THEN Failed(a)
         ELSE IF total > a.len
              THEN Failed([a EXCEPT !.offset =
                              IF aligned_offset <= a.len THEN aligned_offset
                              ELSE a.offset])
         ELSE [alloc |-> [a EXCEPT !.offset = total],
               err |-> NoValue, hi |-> total, lo |-> aligned_offset,
               ok |-> TRUE]

\* alloc_raw that refuses a range ending exactly at the end of the buffer
alloc_raw_strict(a, size, align) ==
    LET aligned_offset == checked_add(a.offset, padding(a, align)) IN
    IF aligned_offset = None THEN Failed(a)
    ELSE LET total == checked_add(aligned_offset, size) IN
         IF total = None THEN Failed(a)
         ELSE IF total >= a.len THEN Failed(a)
         ELSE [alloc |-> [a EXCEPT !.offset = total],
               err |-> NoValue, hi |-> total, lo |-> aligned_offset,
               ok |-> TRUE]

\* FixBufferedAllocator::alloc_raw: null (ok = FALSE) or the position lo;
\* the range handed out is [lo, hi)
alloc_raw(a, size, align) ==
    LET aligned_offset == checked_add(a.offset, padding(a, align)) IN
    IF aligned_offset = None THEN Failed(a)
    ELSE LET total == checked_add(aligned_offset, size) IN
         IF total = None THEN Failed(a)
         ELSE IF total > a.len THEN Failed(a)
         ELSE [alloc |-> [a EXCEPT !.offset = total],
               err |-> NoValue, hi |-> total, lo |-> aligned_offset,
               ok |-> TRUE]

\* FixBufferedAllocator::alloc
fba_alloc(a, size, align) == alloc_raw(a, size, align)

\* FixBufferedAllocator::alloc_slice::<T>(length), T given by (tsize, talign)
fba_alloc_slice(a, tsize, talign, length) ==
    LET size == checked_mul(tsize, length) IN
    IF size = None THEN Failed(a)
    ELSE IF ~LayoutOk(size, talign) THEN Failed(a)
    ELSE alloc_raw(a, size, talign)

\* create that keeps the value of a failed call to itself
fba_create_dropsValue(a, tsize, talign, value) ==
    LET r == fba_alloc(a, tsize, talign) IN
    IF ~r.ok THEN r
    ELSE [r EXCEPT !.alloc = Store(r.alloc, r.lo, r.hi, value)]

\* FixBufferedAllocator::create::<T>(value), T given by (tsize, talign):
\* Err(value), or the value written to its place
fba_create(a, tsize, talign, value) ==
    LET r == fba_alloc(a, tsize, talign) IN
    IF ~r.ok THEN [r EXCEPT !.err = value]
    ELSE [r EXCEPT !.alloc = Store(r.alloc, r.lo, r.hi, value)]

\* a call of one of the three allocation methods. The value created has no
\* part in where it is placed: these requests create one value.
Requests ==
    { [align |-> al, kind |-> "alloc", len |-> 1, size |-> s, value |-> NoValue] :
          s \in Sizes, al \in Aligns }
    \cup { [align |-> ty[2], kind |-> "alloc_slice", len |-> n, size |-> ty[1],
            value |-> NoValue] :
          ty \in Types, n \in Lengths }
    \cup { [align |-> ty[2], kind |-> "create", len |-> 1, size |-> ty[1],
            value |-> 1] :
          ty \in Types }

OfKind(k) == { r \in Requests : r.kind = k }

\* sync get_buf ends in self.alloc_slice::<u8>(length): kind "get_buf"
GetBufReq(length) ==
    [align |-> 1, kind |-> "get_buf", len |-> length, size |-> 1, value |-> NoValue]

fba_call(a, req) ==
    CASE req.kind = "alloc" -> fba_alloc(a, req.size, req.align)
      [] req.kind \in {"alloc_slice", "get_buf"} ->
             fba_alloc_slice(a, req.size, req.align, req.len)
      [] req.kind = "create" -> fba_create(a, req.size, req.align, req.value)

\* ------------------------------------------------- the step record
NoReq == [align |-> 1, kind |-> "-", len |-> 0, size |-> 0, value |-> NoValue]

\* op: the call that returned; req: its request; ok: its outcome; lo, hi: the
\* range granted. The thread-safe coordinator records op and ok (and the
\* length of the buffer try_new_buffer installed): the range a call was
\* granted is in the caller's locals.
Ev(op, req, ok, lo, hi) ==
    [err |-> NoValue, hi |-> hi, lo |-> lo, ok |-> ok, op |-> op, req |-> req]

\* a step inside a call, which returns nothing yet
Quiet == Ev("-", NoReq, TRUE, 0, 0)

\* a handle (or a granted range): bytes [lo, hi) of buffer buf
Handle(buf, lo, hi) == [buf |-> buf, hi |-> hi, lo |-> lo]

Bytes(h) == { <<h.buf, i>> : i \in h.lo..(h.hi - 1) }

\* the handles alive are a bag: two handles may cover the same range
One(h) == SetToBag({h})

\* The caller passes try_new_buffer an exclusive borrow, so the new buffer is
\* none of the buffers a range in `refs` still points into. Buffers are named
\* by number; the name of a buffer nothing points into any more is reused.
FreshBuf(refs) ==
    CHOOSE id \in 1..(Cardinality(refs) + 1) :
        /\ id \notin { h.buf : h \in refs }
        /\ \A other \in 1..(id - 1) : other \in { h.buf : h \in refs }

\* ------------------------------------------------- raw arena behaviour
\* a call of alloc / alloc_slice / create on a bare FixBufferedAllocator
RawCall(req) ==
    /\ variant = "arena"
    /\ LET r == fba_call(fba, req) IN
       /\ fba' = r.alloc
       /\ granted' = IF r.ok
                     THEN granted (+) SetToBag(Bytes(Handle(fba.buf, r.lo, r.hi)))
                     ELSE granted
       /\ ev' = [Ev("raw", req, r.ok, r.lo, r.hi) EXCEPT !.err = r.err]
    /\ UNCHANGED <<variant, localVars, syncVars>>

RawAlloc == \E req \in OfKind("alloc") : RawCall(req)
RawAllocSlice == \E req \in OfKind("alloc_slice") : RawCall(req)
RawCreate == \E req \in OfKind("create") : RawCall(req)

NextArena == RawAlloc \/ RawAllocSlice \/ RawCreate

\* ------------------------------------------------- single-owner coordinator
\* a fatal call (restart, new_buffer, a failed unwrap in drop) has aborted
LPanicked == ev.op \in {"l_restart", "l_new_buffer", "l_drop"} /\ ~ev.ok

LReady == variant = "local" /\ ~LPanicked

\* RestartableFBA::alloc / alloc_slice / create
LCall(req) ==
    /\ LReady
    /\ BagCardinality(l_handles) < MaxHandles
    /\ LET r == fba_call(l_alloc, req) IN
       /\ l_alloc' = r.alloc
       /\ l_counter' = IF r.ok THEN l_counter + 1 ELSE l_counter
       /\ l_handles' = IF r.ok
                       THEN l_handles (+) One(Handle(l_alloc.buf, r.lo, r.hi))
                       ELSE l_handles
       /\ ev' = [Ev("l_alloc", req, r.ok, r.lo, r.hi) EXCEPT !.err = r.err]
    /\ UNCHANGED <<variant, arenaVars, l_views, syncVars>>

LAlloc == \E req \in OfKind("alloc") : LCall(req)
LAllocSlice == \E req \in OfKind("alloc_slice") : LCall(req)
LCreate == \E req \in OfKind("create") : LCall(req)

\* impl Drop for AllocatedRef
LDrop ==
    /\ LReady
    /\ \E h \in BagToSet(l_handles) :
          /\ l_handles' = l_handles (-) One(h)
          /\ l_counter' = IF l_counter >= 1 THEN l_counter - 1 ELSE l_counter
          /\ ev' = Ev("l_drop", NoReq, l_counter >= 1, 0, 0)
    /\ UNCHANGED <<variant, arenaVars, l_alloc, l_views, syncVars>>

\* RestartableFBA::try_restard, and restart when fatal
LRestartBody(op) ==
    /\ LReady
    /\ IF l_counter /= 0
       THEN /\ l_alloc' = l_alloc
            /\ ev' = Ev(op, NoReq, FALSE, 0, 0)
       ELSE /\ l_alloc' = [l_alloc EXCEPT !.offset = 0]
            /\ ev' = Ev(op, NoReq, TRUE, 0, 0)
    /\ UNCHANGED <<variant, arenaVars, l_counter, l_handles, l_views, syncVars>>

LTryRestard == LRestartBody("l_try_restard")
LRestart == LRestartBody("l_restart")

\* try_new_buffer that installs the buffer and leaves the offset as it was
LNewBufferBody_keepsOffset(op, len) ==
    /\ LReady
    /\ IF l_counter /= 0
       THEN /\ l_alloc' = l_alloc
            /\ ev' = Ev(op, [NoReq EXCEPT !.len = len], FALSE, 0, 0)
       ELSE /\ l_alloc' = [NewFBA(FreshBuf(BagToSet(l_handles)), len)
                           EXCEPT !.offset = l_alloc.offset]
            /\ ev' = Ev(op, [NoReq EXCEPT !.len = len], TRUE, 0, 0)
    /\ UNCHANGED <<variant, arenaVars, l_counter, l_handles, l_views, syncVars>>

\* RestartableFBA::try_new_buffer, and new_buffer when fatal
LNewBufferBody(op, len) ==
    /\ LReady
    /\ IF l_counter /= 0
       THEN /\ l_alloc' = l_alloc
            /\ ev' = Ev(op, [NoReq EXCEPT !.len = len], FALSE, 0, 0)
       ELSE /\ l_alloc' = NewFBA(FreshBuf(BagToSet(l_handles)), len)
            /\ ev' = Ev(op, [NoReq EXCEPT !.len = len], TRUE, 0, 0)
    /\ UNCHANGED <<variant, arenaVars, l_counter, l_handles, l_views, syncVars>>

LTryNewBuffer == \E len \in BufLens : LNewBufferBody("l_try_new_buffer", len)
LNewBuffer == \E len \in BufLens : LNewBufferBody("l_new_buffer", len)

\* RestartableFBA::get_buf: hands out the raw buffer; neither the offset nor
\* the counter is written
LGetBuf ==
    /\ LReady
    /\ l_views < MaxHandles
    /\ IF l_counter /= 0
       THEN /\ l_views' = l_views
            /\ ev' = Ev("l_get_buf", NoReq, FALSE, 0, 0)
       ELSE /\ l_views' = l_views + 1
            /\ ev' = Ev("l_get_buf", NoReq, TRUE, 0, l_alloc.len)
    /\ UNCHANGED <<variant, arenaVars, l_alloc, l_counter, l_handles, syncVars>>

\* the caller stops using a view returned by get_buf
LReleaseView ==
    /\ LReady
    /\ l_views > 0
    /\ l_views' = l_views - 1
    /\ ev' = Ev("l_release_view", NoReq, TRUE, 0, 0)
    /\ UNCHANGED <<variant, arenaVars, l_alloc, l_counter, l_handles, syncVars>>

NextLocal ==
    \/ LAlloc \/ LAllocSlice \/ LCreate \/ LDrop
    \/ LTryRestard \/ LRestart \/ LTryNewBuffer \/ LNewBuffer
    \/ LGetBuf \/ LReleaseView

\* ------------------------------------------------- thread-safe coordinator
\* locals of a call: the range it was granted, the buffer length it passes
\* on, and whether a failure is fatal (restart, new_buffer); `was` keeps, for
\* the rest of a get_buf, the offset its `alloc.offset = 0` overwrote
NoLoc == [fatal |-> FALSE, h |-> Handle(0, 0, 0), len |-> 0, was |-> 0]

\* threads between the start of an allocation and the handle's creation
InAlloc == { t \in Threads :
               pc[t] \in {"alloc_inc", "getbuf_cs", "getbuf_slice"} }

\* a panic (restart, new_buffer, the assertion of drop) ends the run: the
\* thread scope of the caller re-raises it
SLive == variant = "sync" /\ \A t \in Threads : pc[t] /= "panicked"

SIdle(t) == SLive /\ pc[t] = "idle"

\* ranges granted and not given back: those of the live handles and those a
\* thread holds between its arena call and the creation of its handle
Pending == { loc[t].h : t \in { u \in Threads : pc[u] = "alloc_inc" } }
SRanges == BagToSet(s_handles) \cup Pending

\* a locked arena call whose new offset is not stored back (a lost update)
SCallCS_lostUpdate(t, from, req) ==
    /\ SLive
    /\ pc[t] = from
    /\ lock = NoThread
    /\ LET r == fba_call(s_alloc, req) IN
       /\ s_alloc' = s_alloc
       /\ lock' = NoThread
       /\ pc' = [pc EXCEPT ![t] = IF r.ok THEN "alloc_inc" ELSE "idle"]
       /\ loc' = [loc EXCEPT ![t] =
                    IF r.ok
                    THEN [NoLoc EXCEPT !.h = Handle(s_alloc.buf, r.lo, r.hi)]
                    ELSE NoLoc]
       /\ ev' = [Ev(IF from = "idle" THEN "s_alloc" ELSE "s_get_buf_slice",
                    NoReq, r.ok, 0, 0) EXCEPT !.err = r.err]
    /\ UNCHANGED <<variant, arenaVars, localVars, s_counter, s_handles>>

\* self.alloc.lock().unwrap().alloc(layout)? (and .alloc_slice::<T>(length)?,
\* .create(value)?): one statement that takes the lock, calls the arena and,
\* its guard being a temporary, releases the lock when it ends, before the
\* counter is touched. `from` is the pc the call is made at.
SCallCS(t, from, req) ==
    /\ SLive
    /\ pc[t] = from
    /\ lock = NoThread
    /\ LET r == fba_call(s_alloc, req) IN
       /\ s_alloc' = r.alloc
       /\ lock' = NoThread
       /\ pc' = [pc EXCEPT ![t] = IF r.ok THEN "alloc_inc" ELSE "idle"]
       /\ loc' = [loc EXCEPT ![t] =
                    IF r.ok
                    THEN [NoLoc EXCEPT !.h = Handle(s_alloc.buf, r.lo, r.hi)]
                    ELSE NoLoc]
       /\ ev' = [Ev(IF from = "idle" THEN "s_alloc" ELSE "s_get_buf_slice",
                    NoReq, r.ok, 0, 0) EXCEPT !.err = r.err]
    /\ UNCHANGED <<variant, arenaVars, localVars, s_counter, s_handles>>

\* room for one more handle
SRoom == BagCardinality(s_handles) + Cardinality(InAlloc) < MaxHandles

SAlloc(t) == SRoom /\ \E req \in OfKind("alloc") : SCallCS(t, "idle", req)
SAllocSlice(t) == SRoom /\ \E req \in OfKind("alloc_slice") : SCallCS(t, "idle", req)
SCreate(t) == SRoom /\ \E req \in OfKind("create") : SCallCS(t, "idle", req)

\* an allocation that returns its handle without the fetch_add
SAllocInc_uncounted(t) ==
    /\ SLive
    /\ pc[t] = "alloc_inc"
    /\ s_counter' = s_counter
    /\ s_handles' = s_handles (+) One(loc[t].h)
    /\ pc' = [pc EXCEPT ![t] = "idle"]
    /\ loc' = [loc EXCEPT ![t] = NoLoc]
    /\ ev' = Quiet
    /\ UNCHANGED <<variant, arenaVars, localVars, s_alloc, lock>>

\* self.counter.fetch_add(1, Relaxed); Some(AllocatedRef { .. })
SAllocInc(t) ==
    /\ SLive
    /\ pc[t] = "alloc_inc"
    /\ s_counter' = (s_counter + 1) % UsizeMod
    /\ s_handles' = s_handles (+) One(loc[t].h)
    /\ pc' = [pc EXCEPT ![t] = "idle"]
    /\ loc' = [loc EXCEPT ![t] = NoLoc]
    /\ ev' = Quiet
    /\ UNCHANGED <<variant, arenaVars, localVars, s_alloc, lock>>

\* impl Drop for sync::AllocatedRef: assert!(counter.load(Relaxed) >= 1)
SDropAssert(t) ==
    /\ SIdle(t)
    /\ \E h \in BagToSet(s_handles) :
          /\ s_handles' = s_handles (-) One(h)
          /\ pc' = [pc EXCEPT ![t] = IF s_counter >= 1 THEN "drop_sub"
                                     ELSE "panicked"]
          /\ loc' = [loc EXCEPT ![t] = NoLoc]
          /\ ev' = Ev("s_drop", NoReq, s_counter >= 1, 0, 0)
    /\ UNCHANGED <<variant, arenaVars, localVars, s_alloc, s_counter, lock>>

\* a drop that passes its assertion and leaves the counter as it was
SDropSub_kept(t) ==
    /\ SLive
    /\ pc[t] = "drop_sub"
    /\ s_counter' = s_counter
    /\ pc' = [pc EXCEPT ![t] = "idle"]
    /\ loc' = [loc EXCEPT ![t] = NoLoc]
    /\ ev' = Quiet
    /\ UNCHANGED <<variant, arenaVars, localVars, s_alloc, s_handles, lock>>

\* impl Drop for sync::AllocatedRef: counter.fetch_sub(1, Relaxed)
SDropSub(t) ==
    /\ SLive
    /\ pc[t] = "drop_sub"
    /\ s_counter' = (s_counter + UsizeMod - 1) % UsizeMod
    /\ pc' = [pc EXCEPT ![t] = "idle"]
    /\ loc' = [loc EXCEPT ![t] = NoLoc]
    /\ ev' = Quiet
    /\ UNCHANGED <<variant, arenaVars, localVars, s_alloc, s_handles, lock>>

\* try_restard / try_new_buffer / get_buf: let mut alloc = self.alloc.lock()
SGateLock(t, to, fatal) ==
    /\ SIdle(t)
    /\ lock = NoThread
    /\ lock' = t
    /\ pc' = [pc EXCEPT ![t] = to]
    /\ loc' = [loc EXCEPT ![t] = [NoLoc EXCEPT !.fatal = fatal]]
    /\ ev' = Quiet
    /\ UNCHANGED <<variant, arenaVars, localVars, s_alloc, s_counter, s_handles>>

STryRestard(t) == SGateLock(t, "restart_cs", FALSE)
SRestart(t) == SGateLock(t, "restart_cs", TRUE)

STryNewBuffer(t) == SGateLock(t, "newbuf_cs", FALSE)
SNewBuffer(t) == SGateLock(t, "newbuf_cs", TRUE)

SGetBuf(t) ==
    /\ SRoom
    /\ SGateLock(t, "getbuf_cs", FALSE)

\* where a gated call goes when the counter is not zero
Refused(t) == IF loc[t].fatal THEN "panicked" ELSE "idle"

\* try_restard that resets the offset without testing the counter
SRestartCS_unchecked(t) ==
    /\ SLive
    /\ pc[t] = "restart_cs"
    /\ lock = t
    /\ s_alloc' = [s_alloc EXCEPT !.offset = 0]
    /\ pc' = [pc EXCEPT ![t] = "idle"]
    /\ lock' = NoThread
    /\ loc' = [loc EXCEPT ![t] = NoLoc]
    /\ ev' = Ev("s_restart", NoReq, TRUE, 0, 0)
    /\ UNCHANGED <<variant, arenaVars, localVars, s_counter, s_handles>>

\* try_restard under the lock: test the counter, reset the offset, unlock
SRestartCS(t) ==
    /\ SLive
    /\ pc[t] = "restart_cs"
    /\ lock = t
    /\ IF s_counter /= 0
       THEN /\ s_alloc' = s_alloc
            /\ pc' = [pc EXCEPT ![t] = Refused(t)]
       ELSE /\ s_alloc' = [s_alloc EXCEPT !.offset = 0]
            /\ pc' = [pc EXCEPT ![t] = "idle"]
    /\ lock' = NoThread
    /\ loc' = [loc EXCEPT ![t] = NoLoc]
    /\ ev' = Ev("s_restart", NoReq, s_counter = 0, 0, 0)
    /\ UNCHANGED <<variant, arenaVars, localVars, s_counter, s_handles>>

\* try_new_buffer under the lock: test the counter, install buf, unlock.
\* Nothing reads the argument buf before this step, so its length is drawn
\* here.
SNewBufferCS(t) ==
    /\ SLive
    /\ pc[t] = "newbuf_cs"
    /\ lock = t
    /\ \E len \in BufLens :
          /\ IF s_counter /= 0
             THEN /\ s_alloc' = s_alloc
                  /\ pc' = [pc EXCEPT ![t] = Refused(t)]
             ELSE /\ s_alloc' = NewFBA(FreshBuf(SRanges), len)
                  /\ pc' = [pc EXCEPT ![t] = "idle"]
          /\ ev' = Ev("s_new_buffer",
                      [NoReq EXCEPT !.len = IF s_counter = 0 THEN len ELSE 0],
                      s_counter = 0, 0, 0)
    /\ lock' = NoThread
    /\ loc' = [loc EXCEPT ![t] = NoLoc]
    /\ UNCHANGED <<variant, arenaVars, localVars, s_counter, s_handles>>

\* get_buf without its drop(alloc): the guard lives on into the nested call
SGetBufCS_keepsLock(t) ==
    /\ SLive
    /\ pc[t] = "getbuf_cs"
    /\ lock = t
    /\ IF s_counter /= 0
       THEN /\ s_alloc' = s_alloc
            /\ pc' = [pc EXCEPT ![t] = "idle"]
            /\ loc' = [loc EXCEPT ![t] = NoLoc]
            /\ lock' = NoThread
       ELSE /\ s_alloc' = [s_alloc EXCEPT !.offset = 0]
            /\ pc' = [pc EXCEPT ![t] = "getbuf_slice"]
            /\ loc' = [loc EXCEPT ![t] = [NoLoc EXCEPT !.len = s_alloc.len,
                                                      !.was = s_alloc.offset]]
            /\ lock' = t
    /\ ev' = IF s_counter /= 0 THEN Ev("s_get_buf", NoReq, FALSE, 0, 0) ELSE Quiet
    /\ UNCHANGED <<variant, arenaVars, localVars, s_counter, s_handles>>

\* get_buf that hands the buffer out zeroed
SGetBufCS_zeroes(t) ==
    /\ SLive
    /\ pc[t] = "getbuf_cs"
    /\ lock = t
    /\ IF s_counter /= 0
       THEN /\ s_alloc' = s_alloc
            /\ pc' = [pc EXCEPT ![t] = "idle"]
            /\ loc' = [loc EXCEPT ![t] = NoLoc]
       ELSE /\ s_alloc' = [Store(s_alloc, 0, s_alloc.len, NoValue)
                           EXCEPT !.offset = 0]
            /\ pc' = [pc EXCEPT ![t] = "getbuf_slice"]
            /\ loc' = [loc EXCEPT ![t] = [NoLoc EXCEPT !.len = s_alloc.len,
                                                      !.was = s_alloc.offset]]
    /\ lock' = NoThread
    /\ ev' = IF s_counter /= 0 THEN Ev("s_get_buf", NoReq, FALSE, 0, 0) ELSE Quiet
    /\ UNCHANGED <<variant, arenaVars, localVars, s_counter, s_handles>>

\* get_buf under the lock: test the counter, take the length, reset the
\* offset, drop(alloc)
SGetBufCS(t) ==
    /\ SLive
    /\ pc[t] = "getbuf_cs"
    /\ lock = t
    /\ IF s_counter /= 0
       THEN /\ s_alloc' = s_alloc
            /\ pc' = [pc EXCEPT ![t] = "idle"]
            /\ loc' = [loc EXCEPT ![t] = NoLoc]
       ELSE /\ s_alloc' = [s_alloc EXCEPT !.offset = 0]
            /\ pc' = [pc EXCEPT ![t] = "getbuf_slice"]
            /\ loc' = [loc EXCEPT ![t] = [NoLoc EXCEPT !.len = s_alloc.len,
                                                      !.was = s_alloc.offset]]
    /\ lock' = NoThread
    /\ ev' = IF s_counter /= 0 THEN Ev("s_get_buf", NoReq, FALSE, 0, 0) ELSE Quiet
    /\ UNCHANGED <<variant, arenaVars, localVars, s_counter, s_handles>>

\* get_buf's tail call self.alloc_slice(length): takes the lock again
SGetBufSlice(t) == SCallCS(t, "getbuf_slice", GetBufReq(loc[t].len))

NextSync ==
    \E t \in Threads :
        \/ SAlloc(t) \/ SAllocSlice(t) \/ SCreate(t)
        \/ SAllocInc(t)
        \/ SDropAssert(t) \/ SDropSub(t)
        \/ STryRestard(t) \/ SRestart(t) \/ SRestartCS(t)
        \/ STryNewBuffer(t) \/ SNewBuffer(t) \/ SNewBufferCS(t)
        \/ SGetBuf(t) \/ SGetBufCS(t) \/ SGetBufSlice(t)

\* ------------------------------------------------- construction
Init ==
    /\ variant \in {"arena", "local", "sync"}
    /\ ev = Ev("new", NoReq, TRUE, 0, 0)
    /\ fba \in IF variant = "arena" THEN {NewFBA(1, len) : len \in ArenaLens}
               ELSE {NewFBA(1, 0)}
    /\ granted = EmptyBag
    /\ l_alloc \in IF variant = "local" THEN {NewFBA(1, len) : len \in BufLens}
                   ELSE {NewFBA(1, 0)}
    /\ l_counter = 0
    /\ l_handles = EmptyBag
    /\ l_views = 0
    /\ s_alloc = NewFBA(1, IF variant = "sync" THEN MaxCap ELSE 0)
    /\ s_counter = 0
    /\ s_handles = EmptyBag
    /\ lock = NoThread
    /\ pc = [t \in Threads |-> "idle"]
    /\ loc = [t \in Threads |-> NoLoc]

Next == NextArena \/ NextLocal \/ NextSync

Spec == Init /\ [][Next]_vars

\* ------------------------------------------------- scenario C
\* tests::it_works1 of sync.rs: a 5-byte buffer, threads that create values
\* at the same time and keep their handles
ScenarioCCap == 5

InitC ==
    /\ variant = "sync"
    /\ ev = Ev("new", NoReq, TRUE, 0, 0)
    /\ fba = NewFBA(1, 0)
    /\ granted = EmptyBag
    /\ l_alloc = NewFBA(1, 0)
    /\ l_counter = 0
    /\ l_handles = EmptyBag
    /\ l_views = 0
    /\ s_alloc = NewFBA(1, ScenarioCCap)
    /\ s_counter = 0
    /\ s_handles = EmptyBag
    /\ lock = NoThread
    /\ pc = [t \in Threads |-> "idle"]
    /\ loc = [t \in Threads |-> NoLoc]

\* a.create(value) by thread t
CCreate(t) == \E req \in OfKind("create") : SCallCS(t, "idle", req)

NextC == \E t \in Threads : CCreate(t) \/ SAllocInc(t)

SpecC == InitC /\ [][NextC]_vars

\* ------------------------------------------------- requests near usize::MAX
\* element counts whose byte size leaves usize (for u32: wraps to 0 and to 4)
\* or exceeds isize::MAX, next to ordinary ones
WideLengths == {0, 1, 2, Pow2(Width - 2), Pow2(Width - 2) + 1, UsizeMax}

\* the largest layouts Layout::from_size_align accepts
WideLayouts ==
    { [align |-> al, kind |-> "alloc", len |-> 1, size |-> IsizeMax - (al - 1),
       value |-> NoValue] :
          al \in Aligns }

WideAlloc == \E req \in WideLayouts : RawCall(req)

WideAllocSlice ==
    \E ty \in Types, n \in WideLengths :
        RawCall([align |-> ty[2], kind |-> "alloc_slice", len |-> n,
                 size |-> ty[1], value |-> NoValue])

InitWide ==
    /\ Init
    /\ variant = "arena"

NextWide == RawAlloc \/ RawCreate \/ WideAlloc \/ WideAllocSlice

SpecWide == InitWide /\ [][NextWide]_vars

\* ------------------------------------------------- polling try_restard
\* tests::it_works3 of sync.rs: threads create values and drop their handles
\* while a caller loops on try_restard (while let None = a.try_restard() {})
InitSync ==
    /\ Init
    /\ variant = "sync"

NextPoll ==
    \E t \in Threads :
        \/ SCreate(t) \/ SAllocInc(t)
        \/ SDropAssert(t) \/ SDropSub(t)
        \/ STryRestard(t) \/ SRestartCS(t)

\* Scheduling: a thread inside a call takes its next step (none of these
\* steps waits for anything); every handle is dropped in the end; the poll
\* loop keeps calling try_restard.
FairPoll ==
    /\ \A t \in Threads :
           /\ WF_vars(SAllocInc(t))
           /\ WF_vars(SDropSub(t))
           /\ WF_vars(SRestartCS(t))
    /\ WF_vars(\E t \in Threads : SDropAssert(t))
    /\ WF_vars(\E t \in Threads : STryRestard(t))

SpecPoll == InitSync /\ [][NextPoll]_vars /\ FairPoll

\* ------------------------------------------------- calls in progress
\* The thread-safe coordinator with the calls that report failure instead of
\* panicking. Handles are dropped or kept as their owners please.
NextCalls ==
    \E t \in Threads :
        \/ SAlloc(t) \/ SAllocSlice(t) \/ SCreate(t)
        \/ SAllocInc(t)
        \/ SDropAssert(t) \/ SDropSub(t)
        \/ STryRestard(t) \/ SRestartCS(t)
        \/ STryNewBuffer(t) \/ SNewBufferCS(t)
        \/ SGetBuf(t) \/ SGetBufCS(t) \/ SGetBufSlice(t)

\* Scheduling: a thread inside a call takes its next step, and a thread that
\* waits for the mutex inside get_buf gets it at one of the times it is free.
\* Nothing makes a thread start a call or drop a handle.
FairCalls ==
    \A t \in Threads :
        /\ WF_vars(SAllocInc(t))
        /\ WF_vars(SDropSub(t))
        /\ WF_vars(SRestartCS(t))
        /\ WF_vars(SNewBufferCS(t))
        /\ WF_vars(SGetBufCS(t))
        /\ SF_vars(SGetBufSlice(t))

SpecCalls == InitSync /\ [][NextCalls]_vars /\ FairCalls

\* ------------------------------------------------- side by side
\* One thread drives a single-owner coordinator (l_ variables) and a
\* thread-safe coordinator (s_ variables) over equal buffers with the same
\* calls. A call of the thread-safe coordinator runs from its lock to its
\* return without another thread in between, so it is one step here.

\* the step record of a pair of calls: the outcome of each
PairEv(op, req, l_ok, s_ok) == [l_ok |-> l_ok, op |-> op, req |-> req, s_ok |-> s_ok]

PairReady == variant = "pair" /\ lock = NoThread

\* alloc / alloc_slice / create on both
PairCall(req) ==
    /\ PairReady
    /\ BagCardinality(l_handles) + l_views < MaxHandles
    /\ BagCardinality(s_handles) < MaxHandles
    /\ LET lr == fba_call(l_alloc, req)
           sr == fba_call(s_alloc, req)
       IN  /\ l_alloc' = lr.alloc
           /\ l_counter' = IF lr.ok THEN l_counter + 1 ELSE l_counter
           /\ l_handles' = IF lr.ok
                           THEN l_handles (+) One(Handle(l_alloc.buf, lr.lo, lr.hi))
                           ELSE l_handles
           /\ s_alloc' = sr.alloc
           /\ s_counter' = IF sr.ok THEN (s_counter + 1) % UsizeMod ELSE s_counter
           /\ s_handles' = IF sr.ok
                           THEN s_handles (+) One(Handle(s_alloc.buf, sr.lo, sr.hi))
                           ELSE s_handles
           /\ ev' = PairEv("alloc", req, lr.ok, sr.ok)
    /\ UNCHANGED <<variant, arenaVars, l_views, lock, pc, loc>>

PairAlloc == \E req \in OfKind("alloc") : PairCall(req)
PairAllocSlice == \E req \in OfKind("alloc_slice") : PairCall(req)
PairCreate == \E req \in OfKind("create") : PairCall(req)

\* the handles of one allocation are dropped on both
PairDrop ==
    /\ PairReady
    /\ \E h \in BagToSet(l_handles) \cap BagToSet(s_handles) :
          /\ l_handles' = l_handles (-) One(h)
          /\ l_counter' = IF l_counter >= 1 THEN l_counter - 1 ELSE l_counter
          /\ s_handles' = s_handles (-) One(h)
          /\ s_counter' = IF s_counter >= 1
                          THEN (s_counter + UsizeMod - 1) % UsizeMod
                          ELSE s_counter
          /\ ev' = PairEv("drop", NoReq, l_counter >= 1, s_counter >= 1)
    /\ UNCHANGED <<variant, arenaVars, l_alloc, l_views, s_alloc, lock, pc, loc>>

\* try_restard on both
PairTryRestard ==
    /\ PairReady
    /\ l_alloc' = IF l_counter /= 0 THEN l_alloc ELSE [l_alloc EXCEPT !.offset = 0]
    /\ s_alloc' = IF s_counter /= 0 THEN s_alloc ELSE [s_alloc EXCEPT !.offset = 0]
    /\ ev' = PairEv("try_restard", NoReq, l_counter = 0, s_counter = 0)
    /\ UNCHANGED <<variant, arenaVars, l_counter, l_handles, l_views,
                   s_counter, s_handles, lock, pc, loc>>

\* try_new_buffer on both, with buffers of one length
PairTryNewBuffer ==
    /\ PairReady
    /\ \E len \in BufLens :
          /\ l_alloc' = IF l_counter /= 0 THEN l_alloc
                        ELSE NewFBA(FreshBuf(BagToSet(l_handles)), len)
          /\ s_alloc' = IF s_counter /= 0 THEN s_alloc
                        ELSE NewFBA(FreshBuf(BagToSet(s_handles)), len)
          /\ ev' = PairEv("try_new_buffer", [NoReq EXCEPT !.len = len],
                          l_counter = 0, s_counter = 0)
    /\ UNCHANGED <<variant, arenaVars, l_counter, l_handles, l_views,
                   s_counter, s_handles, lock, pc, loc>>

\* get_buf on both: the single-owner one returns the raw buffer; the
\* thread-safe one resets the offset and allocates the whole buffer
PairGetBuf ==
    /\ PairReady
    /\ BagCardinality(l_handles) + l_views < MaxHandles
    /\ BagCardinality(s_handles) < MaxHandles
    /\ l_views' = IF l_counter /= 0 THEN l_views ELSE l_views + 1
    /\ LET sr == fba_call([s_alloc EXCEPT !.offset = 0], GetBufReq(s_alloc.len))
       IN  IF s_counter /= 0
           THEN /\ UNCHANGED <<s_alloc, s_counter, s_handles>>
                /\ ev' = PairEv("get_buf", NoReq, l_counter = 0, FALSE)
           ELSE /\ s_alloc' = sr.alloc
                /\ s_counter' = IF sr.ok THEN (s_counter + 1) % UsizeMod
                                ELSE s_counter
                /\ s_handles' = IF sr.ok
                                THEN s_handles (+) One(Handle(s_alloc.buf, sr.lo, sr.hi))
                                ELSE s_handles
                /\ ev' = PairEv("get_buf", NoReq, l_counter = 0, sr.ok)
    /\ UNCHANGED <<variant, arenaVars, l_alloc, l_counter, l_handles, lock, pc, loc>>

\* the caller is done with what get_buf returned: the view on one side, the
\* handle of the whole buffer on the other
PairRelease ==
    /\ PairReady
    /\ l_views > 0
    /\ \E h \in BagToSet(s_handles) :
          /\ CopiesIn(h, s_handles) > CopiesIn(h, l_handles)
          /\ l_views' = l_views - 1
          /\ s_handles' = s_handles (-) One(h)
          /\ s_counter' = IF s_counter >= 1
                          THEN (s_counter + UsizeMod - 1) % UsizeMod
                          ELSE s_counter
          /\ ev' = PairEv("release", NoReq, TRUE, s_counter >= 1)
    /\ UNCHANGED <<variant, arenaVars, l_alloc, l_counter, l_handles, s_alloc,
                   lock, pc, loc>>

InitPair ==
    /\ variant = "pair"
    /\ ev = Ev("new", NoReq, TRUE, 0, 0)
    /\ fba = NewFBA(1, 0)
    /\ granted = EmptyBag
    /\ l_alloc \in {NewFBA(1, len) : len \in BufLens}
    /\ l_counter = 0
    /\ l_handles = EmptyBag
    /\ l_views = 0
    /\ s_alloc = l_alloc
    /\ s_counter = 0
    /\ s_handles = EmptyBag
    /\ lock = NoThread
    /\ pc = [t \in Threads |-> "idle"]
    /\ loc = [t \in Threads |-> NoLoc]

NextPair ==
    \/ PairAlloc \/ PairAllocSlice \/ PairCreate \/ PairDrop
    \/ PairTryRestard \/ PairTryNewBuffer \/ PairGetBuf \/ PairRelease

SpecPair == InitPair /\ [][NextPair]_vars

\* ------------------------------------------------- scenario B
\* tests::it_works1: an arena over a 12-byte buffer, asked for layouts of
\* every size up to one past the buffer and for values of the three types.
ScenarioBCap == 12

BLayouts ==
    { [align |-> al, kind |-> "alloc", len |-> 1, size |-> sz, value |-> NoValue] :
          sz \in 0..(ScenarioBCap + 1), al \in Aligns }

BAlloc == \E req \in BLayouts : RawCall(req)
BCreate == \E req \in OfKind("create") : RawCall(req)

InitB ==
    /\ variant = "arena"
    /\ ev = Ev("new", NoReq, TRUE, 0, 0)
    /\ fba = NewFBA(1, ScenarioBCap)
    /\ granted = EmptyBag
    /\ l_alloc = NewFBA(1, 0)
    /\ l_counter = 0
    /\ l_handles = EmptyBag
    /\ l_views = 0
    /\ s_alloc = NewFBA(1, 0)
    /\ s_counter = 0
    /\ s_handles = EmptyBag
    /\ lock = NoThread
    /\ pc = [t \in Threads |-> "idle"]
    /\ loc = [t \in Threads |-> NoLoc]

NextB == BAlloc \/ BCreate

SpecB == InitB /\ [][NextB]_vars

\* ------------------------------------------------- buffer contents
\* The three objects over zeroed buffers whose bytes are kept track of:
\* values are created, handles dropped, the arena restarted and reclaimed, and
\* the caller writes through the handles and views it holds.

\* create(value) for each value
ValueCreates ==
    { [align |-> ty[2], kind |-> "create", len |-> 1, size |-> ty[1], value |-> v] :
          ty \in Types, v \in Values }

MRawCreate == \E req \in ValueCreates : RawCall(req)
MLCreate == \E req \in ValueCreates : LCall(req)
MSCreate(t) == SRoom /\ \E req \in ValueCreates : SCallCS(t, "idle", req)

\* impl DerefMut for AllocatedRef: the caller writes a byte of its handle
LWrite ==
    /\ LReady
    /\ \E h \in BagToSet(l_handles), v \in Values :
          \E i \in h.lo..(h.hi - 1) :
              /\ h.buf = l_alloc.buf
              /\ l_alloc' = Store(l_alloc, i, i + 1, v)
              /\ ev' = Ev("l_write", NoReq, TRUE, i, i + 1)
    /\ UNCHANGED <<variant, arenaVars, l_counter, l_handles, l_views, syncVars>>

\* the caller writes a byte of the buffer get_buf returned
LViewWrite ==
    /\ LReady
    /\ l_views > 0
    /\ \E i \in 0..(l_alloc.len - 1), v \in Values :
          /\ l_alloc' = Store(l_alloc, i, i + 1, v)
          /\ ev' = Ev("l_view_write", NoReq, TRUE, i, i + 1)
    /\ UNCHANGED <<variant, arenaVars, l_counter, l_handles, l_views, syncVars>>

\* impl DerefMut for sync::AllocatedRef: a thread writes a byte of a handle
SWrite(t) ==
    /\ SIdle(t)
    /\ \E h \in BagToSet(s_handles), v \in Values :
          \E i \in h.lo..(h.hi - 1) :
              /\ h.buf = s_alloc.buf
              /\ s_alloc' = Store(s_alloc, i, i + 1, v)
              /\ ev' = Ev("s_write", NoReq, TRUE, i, i + 1)
    /\ UNCHANGED <<variant, arenaVars, localVars, s_counter, s_handles, lock,
                   pc, loc>>

InitMem ==
    /\ variant \in {"arena", "local", "sync"}
    /\ ev = Ev("new", NoReq, TRUE, 0, 0)
    /\ fba = IF variant = "arena" THEN TrackedFBA(1, MaxCap) ELSE NewFBA(1, 0)
    /\ granted = EmptyBag
    /\ l_alloc = IF variant = "local" THEN TrackedFBA(1, MaxCap) ELSE NewFBA(1, 0)
    /\ l_counter = 0
    /\ l_handles = EmptyBag
    /\ l_views = 0
    /\ s_alloc = IF variant = "sync" THEN TrackedFBA(1, MaxCap) ELSE NewFBA(1, 0)
    /\ s_counter = 0
    /\ s_handles = EmptyBag
    /\ lock = NoThread
    /\ pc = [t \in Threads |-> "idle"]
    /\ loc = [t \in Threads |-> NoLoc]

NextMem ==
    \/ MRawCreate
    \/ MLCreate \/ LDrop \/ LTryRestard \/ LGetBuf \/ LReleaseView
    \/ LWrite \/ LViewWrite
    \/ \E t \in Threads :
           \/ MSCreate(t) \/ SAllocInc(t)
           \/ SDropAssert(t) \/ SDropSub(t)
           \/ STryRestard(t) \/ SRestartCS(t)
           \/ SGetBuf(t) \/ SGetBufCS(t) \/ SGetBufSlice(t)
           \/ SWrite(t)

SpecMem == InitMem /\ [][NextMem]_vars

\* ------------------------------------------------- properties
\* the placement rule in plain integers: the smallest multiple of align that
\* is >= offset
AlignUp(offset, align) == ((offset + align - 1) \div align) * align

\* offset + padding + size <= capacity
Fits(a, req) == AlignUp(a.offset, req.align) + req.size * req.len <= a.len

Overlap(h1, h2) == Bytes(h1) \cap Bytes(h2) /= {}

PendingThreads == { t \in Threads : pc[t] = "alloc_inc" }

GateOps == {"l_try_restard", "l_restart", "l_try_new_buffer", "l_new_buffer",
            "l_get_buf"}

\* C1: in the thread-safe coordinator no two allocations whose handles are
\* alive, or about to be returned, cover overlapping bytes of one buffer (no
\* restart, rebind or reclaim succeeds between an allocation's bump of the
\* offset and the drop of its handle).
C1_LiveRangesDisjoint ==
    /\ \A h \in BagToSet(s_handles) :
          /\ CopiesIn(h, s_handles) >= 2 => Bytes(h) = {}
          /\ \A g \in BagToSet(s_handles) : g /= h => ~Overlap(g, h)
          /\ \A t \in PendingThreads : ~Overlap(loc[t].h, h)
    /\ \A t, u \in PendingThreads : t /= u => ~Overlap(loc[t].h, loc[u].h)

\* C2: the ranges a FixBufferedAllocator has returned are pairwise disjoint
\* (no byte was handed out twice) and each lies within [0, capacity).
C2_RangesDisjointInBounds ==
    variant = "arena" =>
        /\ \A b \in BagToSet(granted) :
              /\ CopiesIn(b, granted) = 1
              /\ b[1] = fba.buf
              /\ b[2] \in 0..(fba.len - 1)
        /\ (ev.op = "raw" /\ ev.ok) => (0 <= ev.lo /\ ev.lo <= ev.hi /\ ev.hi <= fba.len)

\* C2 witness: a 6-byte arena filled to its end by several allocations, one
\* byte of it skipped as padding.
C2_Witness ==
    /\ variant = "arena"
    /\ fba.len = 6
    /\ fba.offset = 6
    /\ BagCardinality(granted) = 5

\* C3: a successful alloc_raw returns a position whose offset from the buffer
\* base is a multiple of the align requested.
C3_PositionAligned ==
    (ev.op \in {"raw", "l_alloc"} /\ ev.ok) => ev.lo % ev.req.align = 0

\* C3 witness: an allocation of align 4 placed at 4 after byte 3 was skipped.
C3_Witness ==
    /\ ev.op = "raw"
    /\ ev.ok
    /\ ev.req.align = 4
    /\ ev.lo = 4
    /\ ev.hi = 6
    /\ CopiesIn(<<fba.buf, 0>>, granted) = 1
    /\ CopiesIn(<<fba.buf, 3>>, granted) = 0

\* C4: an allocation that does not fit fails and leaves the state as it was
\* (offset not advanced, live-count not incremented, no handle made); right
\* after such a failure an allocation that fits still succeeds.  For the
\* thread-safe coordinator, whose events do not record the request, the first
\* half reads: a failure changes nothing, and a success was placed at the
\* aligned offset with its end within the capacity.
C4_FailureLeavesState ==
    [][ /\ (ev'.op = "raw" /\ ~Fits(fba, ev'.req)) =>
               (~ev'.ok /\ fba' = fba /\ granted' = granted)
        /\ (ev'.op = "raw" /\ ev.op = "raw" /\ ~ev.ok /\ Fits(fba, ev'.req)) =>
               (ev'.ok /\ fba'.offset = AlignUp(fba.offset, ev'.req.align)
                                         + ev'.req.size * ev'.req.len)
        /\ (ev'.op = "l_alloc" /\ ~Fits(l_alloc, ev'.req)) =>
               (~ev'.ok /\ l_alloc' = l_alloc /\ l_counter' = l_counter
                /\ l_handles' = l_handles)
        /\ (ev'.op = "l_alloc" /\ ev.op = "l_alloc" /\ ~ev.ok
                /\ Fits(l_alloc, ev'.req)) =>
               (ev'.ok /\ l_counter' = l_counter + 1)
        /\ (ev'.op = "s_alloc" /\ ~ev'.ok) =>
               (s_alloc' = s_alloc /\ s_counter' = s_counter
                /\ s_handles' = s_handles /\ pc' = pc)
        /\ (ev'.op = "s_alloc" /\ ev'.ok) =>
               \E t \in Threads :
                   /\ pc[t] = "idle"
                   /\ pc'[t] = "alloc_inc"
                   /\ \E align \in Aligns :
                          loc'[t].h.lo = AlignUp(s_alloc.offset, align)
                   /\ loc'[t].h.hi <= s_alloc.len
                   /\ s_alloc' = [s_alloc EXCEPT !.offset = loc'[t].h.hi]
        /\ (ev.op = "s_alloc" /\ ~ev.ok /\ ev'.op = "s_alloc") =>
               \A t \in Threads : \A req \in Requests :
                   (Fits(s_alloc, req) /\ SCallCS(t, "idle", req)) =>
                       (ev'.ok /\ pc'[t] = "alloc_inc")
      ]_vars

\* C4 witness: the thread-safe coordinator right after a failed allocation,
\* one handle alive, the offset short of the capacity and a request of one
\* byte or more that still fits.
C4_Witness ==
    /\ ev.op = "s_alloc"
    /\ ~ev.ok
    /\ s_counter = 1
    /\ s_alloc.offset > 0
    /\ \E req \in Requests : req.size * req.len > 0 /\ Fits(s_alloc, req)

\* C5: try_restard succeeds iff the live-count is 0; on success the offset is
\* 0 and the live-count still 0; with a handle alive it fails (restart
\* aborts) and offset, buffer and live-count are as before.
C5_RestartGate ==
    [][ /\ ev'.op \in {"l_try_restard", "l_restart"} =>
               /\ ev'.ok <=> (l_counter = 0)
               /\ l_handles /= EmptyBag => ~ev'.ok
               /\ ev'.ok => (l_alloc' = [l_alloc EXCEPT !.offset = 0]
                             /\ l_counter' = 0)
               /\ ~ev'.ok => (l_alloc' = l_alloc /\ l_counter' = l_counter
                              /\ l_handles' = l_handles)
        /\ ~(ev.op = "l_restart" /\ ~ev.ok)
        /\ ev'.op = "s_restart" =>
               /\ ev'.ok <=> (s_counter = 0)
               /\ s_handles /= EmptyBag => ~ev'.ok
               /\ ev'.ok => (s_alloc' = [s_alloc EXCEPT !.offset = 0]
                             /\ s_counter' = 0)
               /\ ~ev'.ok => (s_alloc' = s_alloc /\ s_counter' = s_counter
                              /\ s_handles' = s_handles)
               /\ \A t \in Threads :
                      (pc[t] = "restart_cs" /\ loc[t].fatal /\ ~ev'.ok) =>
                          pc'[t] = "panicked"
      ]_vars

\* C5 witness: a try_restard of the thread-safe coordinator refused while a
\* handle is alive and the offset is past 0.
C5_Witness ==
    /\ ev.op = "s_restart"
    /\ ~ev.ok
    /\ s_handles /= EmptyBag
    /\ s_alloc.offset > 0

\* C6: try_new_buffer succeeds iff the live-count is 0, and then the arena
\* holds the new buffer (its length the capacity) at offset 0; with a handle
\* alive it fails (new_buffer aborts) and buffer, offset and live-count are
\* as before.
C6_RebindGate ==
    [][ /\ ev'.op \in {"l_try_new_buffer", "l_new_buffer"} =>
               /\ ev'.ok <=> (l_counter = 0)
               /\ l_handles /= EmptyBag => ~ev'.ok
               /\ ev'.ok => (/\ l_alloc'.len = ev'.req.len
                             /\ l_alloc'.offset = 0
                             /\ l_alloc'.buf \notin
                                    { h.buf : h \in BagToSet(l_handles) }
                             /\ l_counter' = 0)
               /\ ~ev'.ok => (l_alloc' = l_alloc /\ l_counter' = l_counter
                              /\ l_handles' = l_handles)
        /\ ~(ev.op = "l_new_buffer" /\ ~ev.ok)
        /\ ev'.op = "s_new_buffer" =>
               /\ ev'.ok <=> (s_counter = 0)
               /\ s_handles /= EmptyBag => ~ev'.ok
               /\ ev'.ok => (/\ s_alloc'.len = ev'.req.len
                             /\ s_alloc'.offset = 0
                             /\ s_alloc'.buf \notin { h.buf : h \in SRanges }
                             /\ s_counter' = 0)
               /\ ~ev'.ok => (s_alloc' = s_alloc /\ s_counter' = s_counter
                              /\ s_handles' = s_handles)
               /\ \A t \in Threads :
                      (pc[t] = "newbuf_cs" /\ loc[t].fatal /\ ~ev'.ok) =>
                          pc'[t] = "panicked"
      ]_vars

\* C6 witness: the single-owner coordinator after a rebind to a 1-byte
\* buffer, followed by nothing else.
C6_Witness ==
    /\ ev.op = "l_try_new_buffer"
    /\ ev.ok
    /\ l_alloc.len = 1
    /\ l_alloc.offset = 0

\* C7: once get_buf has succeeded, every create / alloc / alloc_slice of one
\* byte or more issued before the reclaimed view is released fails
\* (single-owner: while a view is in use; thread-safe: the allocation that
\* follows get_buf's own allocation of the whole buffer).
C7_AllocFailsWhileReclaimed ==
    [][ /\ (l_views > 0 /\ ev'.op = "l_alloc"
                /\ ev'.req.size * ev'.req.len > 0) => ~ev'.ok
        /\ (ev.op = "s_get_buf_slice" /\ ev.ok /\ ev'.op = "s_alloc") =>
               \A t \in Threads : \A req \in Requests :
                   (req.size * req.len > 0 /\ SCallCS(t, "idle", req)) => ~ev'.ok
      ]_vars

\* C8: get_buf is gated on live-count = 0, resets the offset to 0 first, and
\* its view counts as a live allocation: after a successful get_buf the
\* live-count is at least 1 and try_restard, try_new_buffer and get_buf fail
\* until the view is released.
C8_ReclaimCountsAsLive ==
    [][ /\ ev'.op = "l_get_buf" =>
               /\ ev'.ok <=> (l_counter = 0)
               /\ ev'.ok => (l_alloc'.offset = 0 /\ l_counter' >= 1)
        /\ (l_views > 0 /\ ev'.op \in GateOps) => ~ev'.ok
        /\ \A t \in Threads :
               (pc[t] = "getbuf_cs" /\ pc'[t] /= "getbuf_cs") =>
                   /\ pc'[t] = "getbuf_slice" <=> (s_counter = 0)
                   /\ pc'[t] = "getbuf_slice" => s_alloc'.offset = 0
        /\ s_handles /= EmptyBag =>
               /\ s_counter >= 1
               /\ ev'.op \in {"s_restart", "s_new_buffer", "s_get_buf"} => ~ev'.ok
               /\ \A t \in Threads : pc[t] = "getbuf_cs" => pc'[t] /= "getbuf_slice"
      ]_vars

\* C9: in the thread-safe coordinator a get_buf that observes live-count = 0
\* always returns the handle of the whole buffer: no other thread's
\* allocation takes effect between its test of the count and its own
\* allocation.
C9_ReclaimAtomic ==
    ev.op = "s_get_buf_slice" =>
        /\ ev.ok
        /\ \E t \in PendingThreads : loc[t].h = Handle(s_alloc.buf, 0, s_alloc.len)

\* C10: the live-count equals the number of handles made by successful
\* allocations and not yet dropped (a handle inside drop counts until its
\* fetch_sub), it never wraps below 0, and the assertion of drop never fails.
C10_CounterCountsHandles ==
    /\ l_counter = BagCardinality(l_handles)
    /\ s_counter = BagCardinality(s_handles)
                   + Cardinality({ t \in Threads : pc[t] = "drop_sub" })
    /\ ~(ev.op \in {"l_drop", "s_drop"} /\ ~ev.ok)
    /\ \A t \in Threads : pc[t] = "panicked" => ev.op \in {"s_restart", "s_new_buffer"}

\* C10 witness: two handles of the thread-safe coordinator inside drop at
\* once on two threads, neither fetch_sub done yet.
C10_Witness ==
    /\ \A t \in Threads : pc[t] = "drop_sub"
    /\ s_counter = 2


\* create::<u16> and create::<u8>
U16Create == [align |-> 2, kind |-> "create", len |-> 1, size |-> 2, value |-> 1]
U8Create == [align |-> 1, kind |-> "create", len |-> 1, size |-> 1, value |-> 1]

\* the ranges in R are those a single thread gets when it issues the creates
\* one after the other, in some order, starting at offset `from` and ending at
\* offset `to` (a value of size n has align n)
RECURSIVE SequentialRun(_, _, _)
SequentialRun(R, from, to) ==
    IF R = {} THEN from = to
    ELSE \E h \in R :
            /\ h.lo = AlignUp(from, h.hi - h.lo)
            /\ SequentialRun(R \ {h}, h.hi, to)

\* C11: over a 5-byte buffer two 2-byte creates issued at the same time both
\* succeed, whatever the interleaving, with disjoint ranges, and a 1-byte
\* create after them succeeds; in general the ranges of concurrent creates
\* are those of the same creates run one after the other in some order.
C11_ConcurrentCreatesSerialized ==
    [][ /\ \A t \in Threads :
               /\ (s_alloc.offset <= 2 /\ SCallCS(t, "idle", U16Create)) =>
                      (ev'.ok /\ \A h \in SRanges : ~Overlap(h, loc'[t].h))
               /\ (SRanges = {Handle(1, 0, 2), Handle(1, 2, 4)}
                       /\ SCallCS(t, "idle", U8Create)) =>
                      (ev'.ok /\ loc'[t].h = Handle(1, 4, 5))
        /\ BagCardinality(s_handles') + Cardinality(PendingThreads')
               = Cardinality(SRanges')
        /\ SequentialRun(SRanges', 0, s_alloc'.offset)
      ]_vars

\* C11 witness: both threads between their create's arena call and its
\* return, one granted [0,2) and the other [2,4).
C11_Witness ==
    /\ s_alloc.len = ScenarioCCap
    /\ \A t \in Threads : pc[t] = "alloc_inc"
    /\ Pending = {Handle(1, 0, 2), Handle(1, 2, 4)}

\* C12: when offset + padding, aligned_offset + size or size_of::<T>() * count
\* is more than usize::MAX the allocation fails and the offset stays; the
\* offset stored and the end compared with the capacity are the true sums,
\* never values reduced modulo 2^Width.
C12_OverflowFails ==
    [][ ev'.op = "raw" =>
            LET req == ev'.req
                aligned == AlignUp(fba.offset, req.align)
                bytes == req.size * req.len
            IN  /\ (bytes > UsizeMax \/ aligned > UsizeMax
                        \/ aligned + bytes > UsizeMax) =>
                       (~ev'.ok /\ fba' = fba /\ granted' = granted)
                /\ fba'.offset \in {fba.offset, aligned + bytes}
                /\ ev'.ok => (aligned + bytes <= fba.len /\ ev'.hi = aligned + bytes)
      ]_vars

\* C12 witness: an alloc_slice::<u32> whose byte size is exactly 2^Width (0
\* after wrap-around) refused by an arena with bytes in use and room left.
C12_Witness ==
    /\ ev.op = "raw"
    /\ ev.req.kind = "alloc_slice"
    /\ ev.req.size * ev.req.len = UsizeMod
    /\ ~ev.ok
    /\ fba.offset > 0
    /\ fba.offset < fba.len

\* C13: with creates that stop once the buffer is full and every handle
\* dropped in the end, a caller that keeps polling try_restard gets success,
\* again and again: the poll loop does not spin forever.
C13_PollSucceeds == []<>(ev.op = "s_restart" /\ ev.ok)

\* C13 witness: a poll refused on a full buffer whose only handle is still
\* alive; the caller has to poll again.
C13_Witness ==
    /\ ev.op = "s_restart"
    /\ ~ev.ok
    /\ s_alloc.offset = s_alloc.len
    /\ BagCardinality(s_handles) = 1
    /\ s_counter = 1

\* C14: driven side by side by one thread with the same calls on equal
\* buffers, the two coordinators return the same success or failure for every
\* call and are in the same (offset, live_count) state after every call.
C14_SameContract ==
    variant = "pair" =>
        /\ ev.op /= "new" => ev.l_ok = ev.s_ok
        /\ l_alloc.offset = s_alloc.offset
        /\ l_counter = s_counter

\* C15: a create(value) that fails for lack of space returns Err(value), the
\* very value passed in, and changes neither the offset, nor the live-count
\* and the handles of a coordinator, nor any byte of the buffer.
C15_FailedCreateReturnsValue ==
    [][ /\ (ev'.op = "raw" /\ ev'.req.kind = "create") =>
               /\ ~Fits(fba, ev'.req) => ~ev'.ok
               /\ ~ev'.ok => (ev'.err = ev'.req.value /\ fba' = fba
                              /\ granted' = granted)
        /\ (ev'.op = "l_alloc" /\ ev'.req.kind = "create") =>
               /\ ~Fits(l_alloc, ev'.req) => ~ev'.ok
               /\ ~ev'.ok => (ev'.err = ev'.req.value /\ l_alloc' = l_alloc
                              /\ l_counter' = l_counter /\ l_handles' = l_handles)
        /\ (ev'.op = "s_alloc" /\ ~ev'.ok) =>
               /\ s_alloc' = s_alloc
               /\ s_counter' = s_counter
               /\ s_handles' = s_handles
               /\ \A t \in Threads : \A req \in ValueCreates :
                      SCallCS(t, "idle", req) =>
                          (~Fits(s_alloc, req) /\ ev'.err = req.value)
      ]_vars

\* C15 witness: a create of the value 2 refused by an arena whose first byte
\* holds the value 1 created before; Err(2) comes back.
C15_Witness ==
    /\ ev.op = "raw"
    /\ ev.req.kind = "create"
    /\ ~ev.ok
    /\ ev.req.value = 2
    /\ ev.err = 2
    /\ fba.offset > 0
    /\ fba.bytes[0] = 1

\* C16: alloc_raw places a request of (size, align) at the smallest multiple
\* of align that is >= offset, less than align bytes further on; it succeeds
\* exactly when that position plus size is <= the capacity, an end exactly at
\* the capacity included; on success the offset becomes position + size, on
\* failure nothing changes. In the 12-byte buffer (4,4), (1,1), (4,4) are
\* placed at [0,4), [4,5), [8,12).
C16_PlacementRule ==
    [][ (ev'.op = "raw" /\ ev'.req.kind \in {"alloc", "create"}) =>
            LET align == ev'.req.align
                size  == ev'.req.size
                aligned_offset == AlignUp(fba.offset, align)
            IN  /\ aligned_offset >= fba.offset
                /\ aligned_offset % align = 0
                /\ \A m \in fba.offset..(aligned_offset - 1) : m % align /= 0
                /\ aligned_offset - fba.offset < align
                /\ aligned_offset - fba.offset = padding(fba, align)
                /\ ev'.ok <=> (aligned_offset + size <= fba.len)
                /\ ev'.ok => /\ ev'.lo = aligned_offset
                             /\ ev'.hi = aligned_offset + size
                             /\ fba'.offset = aligned_offset + size
                /\ ~ev'.ok => fba' = fba
                /\ (fba.len = 12 /\ size = 4 /\ align = 4 /\ fba.offset = 0)
                       => (ev'.ok /\ ev'.lo = 0 /\ ev'.hi = 4)
                /\ (fba.len = 12 /\ size = 1 /\ align = 1 /\ fba.offset = 4)
                       => (ev'.ok /\ ev'.lo = 4 /\ ev'.hi = 5)
                /\ (fba.len = 12 /\ size = 4 /\ align = 4 /\ fba.offset = 5)
                       => (ev'.ok /\ ev'.lo = 8 /\ ev'.hi = 12)
      ]_vars

\* C16 witness: the end of scenario B: [0,4) and [4,5) were granted, and the
\* third request, (4,4) at offset 5, got [8,12), ending exactly at capacity.
C16_Witness ==
    /\ variant = "arena"
    /\ fba.len = 12
    /\ fba.offset = 12
    /\ ev.op = "raw"
    /\ ev.ok
    /\ ev.req.size = 4
    /\ ev.req.align = 4
    /\ ev.lo = 8
    /\ ev.hi = 12
    /\ granted = SetToBag({ <<fba.buf, i>> : i \in {0, 1, 2, 3, 4, 8, 9, 10, 11} })

\* C17: in the thread-safe coordinator a successful alloc / alloc_slice /
\* create raises the live-count before it releases the lock: whenever the lock
\* is free, the live-count is at least the number of ranges granted and not
\* given back, those of the live handles and those whose call has yet to
\* return its handle.
C17_CountedBeforeUnlock ==
    (variant = "sync" /\ lock = NoThread) =>
        s_counter >= BagCardinality(s_handles) + Cardinality(PendingThreads)

\* C18: in the arena and in both coordinators the offset stays within
\* 0..capacity of the current buffer, whatever buffer try_new_buffer installs,
\* and it gets smaller only in a successful restart, rebind or reclaim, which
\* leave it 0: a get_buf that returns None has not lowered the offset.
C18_OffsetMonotone ==
    [][ /\ 0 <= fba'.offset /\ fba'.offset <= fba'.len
        /\ 0 <= l_alloc'.offset /\ l_alloc'.offset <= l_alloc'.len
        /\ 0 <= s_alloc'.offset /\ s_alloc'.offset <= s_alloc'.len
        /\ fba'.offset >= fba.offset
        /\ l_alloc'.offset < l_alloc.offset =>
               (ev'.op \in GateOps /\ ev'.ok /\ l_alloc'.offset = 0)
        /\ s_alloc'.offset < s_alloc.offset =>
               /\ s_alloc'.offset = 0
               /\ \/ ev'.op \in {"s_restart", "s_new_buffer"} /\ ev'.ok
                  \/ \E t \in Threads : pc[t] = "getbuf_cs" /\ pc'[t] = "getbuf_slice"
        /\ \A t \in Threads :
               (pc[t] = "getbuf_slice" /\ pc'[t] = "idle") => loc[t].was = 0
      ]_vars

\* the bytes of arena a that differ in arena b
Changed(a, b) == { i \in DOMAIN a.bytes : a.bytes[i] /= b.bytes[i] }

\* C19: dropping a handle, try_restard and get_buf leave every byte of the
\* buffer as it is, so what was written through a handle is still there after
\* its drop and after a restart, and is what a reclaimed view shows; a byte
\* changes only when a value is created over it or when it is written through
\* a live handle or the reclaimed view.
C19_ContentsKept ==
    [][ /\ ev'.op \in {"l_drop", "l_try_restard", "l_get_buf", "l_release_view"}
               => l_alloc'.bytes = l_alloc.bytes
        /\ ev'.op \in {"s_drop", "s_restart", "s_get_buf", "s_get_buf_slice"}
               => s_alloc'.bytes = s_alloc.bytes
        /\ \A t \in Threads :
               (/\ pc'[t] /= pc[t]
                /\ \/ pc[t] \in {"drop_sub", "restart_cs", "getbuf_cs", "getbuf_slice"}
                   \/ pc'[t] \in {"drop_sub", "restart_cs", "getbuf_cs", "getbuf_slice"})
               => s_alloc'.bytes = s_alloc.bytes
        /\ Changed(l_alloc, l_alloc') /= {} =>
               /\ \/ ev'.op = "l_alloc" /\ ev'.req.kind = "create" /\ ev'.ok
                  \/ ev'.op = "l_write"
                  \/ ev'.op = "l_view_write" /\ l_views > 0
               /\ Changed(l_alloc, l_alloc') \subseteq ev'.lo..(ev'.hi - 1)
        /\ Changed(s_alloc, s_alloc') /= {} =>
               \/ /\ ev'.op = "s_write"
                  /\ Changed(s_alloc, s_alloc') \subseteq ev'.lo..(ev'.hi - 1)
                  /\ \E h \in BagToSet(s_handles) :
                         ev'.lo..(ev'.hi - 1) \subseteq h.lo..(h.hi - 1)
               \/ /\ ev'.op = "s_alloc" /\ ev'.ok
                  /\ \E t \in Threads :
                         /\ pc[t] = "idle" /\ pc'[t] = "alloc_inc"
                         /\ Changed(s_alloc, s_alloc')
                                \subseteq loc'[t].h.lo..(loc'[t].h.hi - 1)
      ]_vars

\* C19 witness: as in sync_get_buf_safe, a value was created at byte 0, its
\* handle dropped, and get_buf has succeeded: byte 0 still holds the value.
C19_Witness ==
    /\ variant = "sync"
    /\ ev.op = "s_get_buf_slice"
    /\ ev.ok
    /\ s_handles = EmptyBag
    /\ s_alloc.bytes[0] = 2
    /\ s_alloc.bytes[1] = NoValue

\* C20: in the thread-safe coordinator, under fair scheduling, every call in
\* progress (alloc / alloc_slice / create, try_restard, try_new_buffer,
\* get_buf with its nested alloc_slice that locks again) returns in the end,
\* its thread not holding the lock, whatever handles are alive and however
\* long they are kept; and a lock that is held is released.
C20_CallsReturn ==
    /\ \A t \in Threads : (pc[t] /= "idle") ~> (pc[t] = "idle" /\ lock /= t)
    /\ (lock /= NoThread) ~> (lock = NoThread)

\* C20 witness: a thread inside get_buf, about to lock again for its nested
\* alloc_slice, while another thread holds the lock and a handle is alive.
C20_Witness ==
    /\ variant = "sync"
    /\ \E t \in Threads :
           /\ pc[t] = "getbuf_slice"
           /\ lock \in Threads \ {t}
    /\ BagCardinality(s_handles) >= 1

====
